---------------------------- MODULE Spec2Model ----------------------------
(***************************************************************************)
(* A model of github_scraper.py: the GithubScraper class.                  *)
(*                                                                         *)
(* The program is sequential.  Its state is the object's fields (user,     *)
(* api_token, orgs, members), the position of the running method (pc and   *)
(* the loop indices), the locals of the running report generator (its row  *)
(* accumulator and its graphs) and what was handed to the writers.  The    *)
(* GitHub API is the environment: each call of load_json meets an          *)
(* endpoint, a finite sequence of page responses followed by empty pages.  *)
(***************************************************************************)
EXTENDS Integers, Sequences, FiniteSets, TLC

VARIABLES
    pc,             \* the method (or loop) the program is in
    status,         \* "running", "finished", "exit(1)" or the uncaught exception
    config,         \* the contents of config.json (the environment)
    orgs_file,      \* the github_org_name column of organizations.csv
    user,           \* self.user
    api_token,      \* self.api_token
    orgs,           \* self.orgs
    members,        \* self.members: a dict, organization -> list of logins
    operations,     \* select_options: the operations_input still to dispatch
    org_i,          \* index of the organization the running loop is at
    item_i,         \* index of the member / repository the inner loop is at
    json_repo,      \* get_repo_contributors: the repositories of the current org
    json_all,       \* the row accumulator of the running generator
    graph,          \* the graphs of the running generator, by tag
    csv,            \* the last call of generate_csv: file name and rows
    gexf,           \* the graphs handed to nx.write_gexf so far, by file tag
    requests,       \* number of HTTP requests issued so far
    members_calls,  \* history: organizations whose members endpoint was fetched
    call,           \* history: the last load_json call, endpoint and result
    calls,          \* history: load_json results of the running generator, by position
    ran,            \* history: the operations dispatched so far
    returned        \* history: follow relations returned, by organization index

vars == <<pc, status, config, orgs_file, user, api_token, orgs, members,
          operations, org_i, item_i, json_repo, json_all, graph, csv, gexf,
          requests, members_calls, call, calls, ran, returned>>

---------------------------------------------------------------------------
(* Bounds of the model.                                                    *)

\* longest endpoint (number of page responses before the endless empty pages)
MaxPages == 3
\* most items on one page of the small endpoints
MaxPageLen == 2
\* most operations typed at the menu in the whole-run specification
MaxOps == 2

---------------------------------------------------------------------------
(* JSON values.  An item of a decoded page is a dict (a record of the API) *)
(* or, when the page decoded to a JSON object, one of the object's keys (a *)
(* str): list.extend iterates a dict by its keys.                          *)

None == "None"

Dict(name) ==
    [type |-> "dict", name |-> name, organization |-> None, user |-> None,
     repository |-> None]

Str(s) ==
    [type |-> "str", name |-> s, organization |-> None, user |-> None,
     repository |-> None]

\* A page response: what requests.get(...).json() meets.
\*   "array"    the body decodes to a JSON array of items
\*   "object"   the body decodes to a JSON object (GitHub's error bodies:
\*              {"message": ..., "documentation_url": ...}); items are its keys
\*   "notjson"  the body is not valid JSON: .json() raises JSONDecodeError
\*   "neterror" requests.get raises ConnectionError
Array(items) == [kind |-> "array", items |-> items]

EmptyArray == Array(<<>>)

\* A JSON object with two keys.
ObjectOf(key1, key2) == [kind |-> "object", items |-> <<Str(key1), Str(key2)>>]

ErrorObject == ObjectOf("message", "documentation_url")

NotJson == [kind |-> "notjson", items |-> <<>>]

NetError == [kind |-> "neterror", items |-> <<>>]

\* The response an endpoint gives to the request for page n.
Response(pages, n) == IF n <= Len(pages) THEN pages[n] ELSE EmptyArray

---------------------------------------------------------------------------
(* load_json (lines 130-152).                                              *)

\* One turn of the while loop, with the requests issued so far.
RECURSIVE load_json_loop(_, _, _, _)
load_json_loop(pages, page, json_list, reqs) ==
    LET json_data == Response(pages, page)
        issued == Append(reqs, page)
    IN  IF json_data.kind = "neterror"
        THEN [outcome |-> "ConnectionError", json_list |-> json_list, reqs |-> issued]
        ELSE IF json_data.kind = "notjson"
        THEN [outcome |-> "JSONDecodeError", json_list |-> json_list, reqs |-> issued]
        ELSE IF json_data = EmptyArray
        THEN [outcome |-> "return", json_list |-> json_list, reqs |-> issued]
        ELSE load_json_loop(pages, page + 1, json_list \o json_data.items, issued)

\* per_page of every paginated request (line 145).
PerPage == 100

\* Mutant: the pagination stops at the first page shorter than per_page,
\* without asking for the empty page that follows it.
RECURSIVE load_json_short_loop(_, _, _, _)
load_json_short_loop(pages, page, json_list, reqs) ==
    LET json_data == Response(pages, page)
        issued == Append(reqs, page)
    IN  IF json_data.kind = "neterror"
        THEN [outcome |-> "ConnectionError", json_list |-> json_list, reqs |-> issued]
        ELSE IF json_data.kind = "notjson"
        THEN [outcome |-> "JSONDecodeError", json_list |-> json_list, reqs |-> issued]
        ELSE IF Len(json_data.items) < PerPage
        THEN [outcome |-> "return", json_list |-> json_list \o json_data.items,
              reqs |-> issued]
        ELSE load_json_short_loop(pages, page + 1, json_list \o json_data.items, issued)

load_json_short_page(pages) == load_json_short_loop(pages, 1, <<>>, <<>>)

\* load_json(url), url served by the endpoint `pages`.
load_json(pages) == load_json_loop(pages, 1, <<>>, <<>>)

Returned(res) == res.outcome = "return"

\* Whether a returned list holds only records (no key of a JSON object).
AllDicts(list) == \A k \in 1..Len(list) : list[k].type = "dict"

\* The exception a caller meets when it indexes a str item by a field name.
FaultOf(res) == IF Returned(res) THEN "TypeError" ELSE res.outcome

NoCall == [pages |-> <<>>, res |-> [outcome |-> "none", json_list |-> <<>>, reqs |-> <<>>]]

---------------------------------------------------------------------------
(* networkx.DiGraph as the program uses it: nodes and edges keyed by name  *)
(* and by (from, to), each with one attribute (organization, or node_type  *)
(* in the membership graph).  A node created by add_edge has none.         *)

DiGraph == [nodes |-> {}, edges |-> {}]

NodeNames(G) == {n.name : n \in G.nodes}

HasEdge(G, u, v) == \E e \in G.edges : e.from = u /\ e.to = v

\* graph.add_node(name, organization=attr): a new node, or the attribute of
\* the node of that name updated.
add_node(G, name, attr) ==
    [G EXCEPT !.nodes = {n \in @ : n.name # name} \cup {[name |-> name, attr |-> attr]}]

\* Mutant: a second insertion of the same pair is stored as a second edge.
add_edge_duplicating(G, u, v, attr) ==
    [nodes |-> G.nodes \cup {[name |-> w, attr |-> None] : w \in {u, v} \ NodeNames(G)},
     edges |-> G.edges \cup {[from |-> u, to |-> v, attr |-> attr]}]

\* graph.add_edge(u, v, organization=attr): both endpoints become nodes if
\* they are not (existing nodes keep their attribute), and the edge (u, v)
\* is created or its attribute updated.
add_edge(G, u, v, attr) ==
    [nodes |-> G.nodes \cup {[name |-> w, attr |-> None] : w \in {u, v} \ NodeNames(G)},
     edges |-> {e \in G.edges : ~(e.from = u /\ e.to = v)}
                 \cup {[from |-> u, to |-> v, attr |-> attr]}]

---------------------------------------------------------------------------
(* __init__ (lines 28-74).                                                 *)

Absent == "<absent>"

\* config.json: missing, or an object whose keys may be missing or empty.
NoConfigFile == [exists |-> FALSE, user_name |-> Absent, api_token |-> Absent]

ConfigFile(u, t) == [exists |-> TRUE, user_name |-> u, api_token |-> t]

\* Mutant: only a missing file or key is an error, an empty value is not.
config_error_unless_empty(c) ==
    \/ ~c.exists
    \/ c.user_name = Absent
    \/ c.api_token = Absent

\* Lines 38-50: FileNotFoundError, KeyError (a missing key, or raised for an
\* empty value) all end in exit(1).
ConfigError(c) ==
    \/ ~c.exists
    \/ c.user_name = Absent
    \/ c.api_token = Absent
    \/ c.user_name = "" \/ c.api_token = ""

\* The state before the constructor runs: the two input files as found.
InitWith(Configs, OrgFiles) ==
    /\ config \in Configs
    /\ orgs_file \in OrgFiles
    /\ pc = "__init__"
    /\ status = "running"
    /\ user = None
    /\ api_token = None
    /\ orgs = <<>>
    /\ members = <<>>
    /\ operations = <<>>
    /\ org_i = 1
    /\ item_i = 1
    /\ json_repo = <<>>
    /\ json_all = <<>>
    /\ graph = <<>>
    /\ csv = [file |-> None, rows |-> <<>>]
    /\ gexf = {}
    /\ requests = 0
    /\ members_calls = <<>>
    /\ call = NoCall
    /\ calls = {}
    /\ ran = <<>>
    /\ returned = {}

\* What a method leaves alone when it only moves the program on.
LocalsUnchanged ==
    UNCHANGED <<org_i, item_i, json_repo, json_all, graph, csv, gexf, requests,
                members_calls, call, calls, ran, returned>>

\* GithubScraper(): read the credentials and the organizations, or exit.
construct ==
    /\ pc = "__init__"
    /\ status = "running"
    /\ IF ConfigError(config)
       THEN /\ status' = "exit(1)"
            /\ pc' = "exit"
            /\ UNCHANGED <<user, api_token, orgs>>
       ELSE /\ user' = config.user_name
            /\ api_token' = config.api_token
            /\ orgs' = orgs_file
            /\ IF orgs_file = <<>>
               THEN status' = "exit(1)" /\ pc' = "exit"
               ELSE status' = status /\ pc' = "select_options"
    /\ members' = <<>>
    /\ UNCHANGED <<config, orgs_file, operations>>
    /\ LocalsUnchanged

---------------------------------------------------------------------------
(* select_options (lines 93-128) and get_members (lines 76-91).            *)

MemberScoped == {3, 4, 5, 6, 7}

\* Mutant: the members are fetched whatever was selected.
members_always_required(operations_input) == TRUE

\* Line 125: any(int(item) for item in operations_input if int(item) in [3..7]).
members_required(operations_input) ==
    \E k \in 1..Len(operations_input) :
        operations_input[k] \in MemberScoped /\ operations_input[k] # 0

\* The menu: the user types a list of report numbers (or 'all').
select_options(Selections) ==
    /\ pc = "select_options"
    /\ status = "running"
    /\ \E operations_input \in Selections :
        /\ operations' = operations_input
        /\ pc' = IF members_required(operations_input) THEN "get_members" ELSE "dispatch"
    /\ UNCHANGED <<status, config, orgs_file, user, api_token, orgs, members>>
    /\ LocalsUnchanged

Range(seq) == {seq[k] : k \in 1..Len(seq)}

Min(S) == CHOOSE x \in S : \A y \in S : x <= y

Max(S) == CHOOSE x \in S : \A y \in S : x >= y

\* member['login'] of every record of a list.
Logins(json_list) == [k \in 1..Len(json_list) |-> json_list[k].name]

RECURSIVE RequestsUpTo(_, _)
RequestsUpTo(res, k) == IF k = 0 THEN 0 ELSE Len(res[k].reqs) + RequestsUpTo(res, k - 1)

\* get_members: one load_json per entry of self.orgs, in order; the dict is
\* assigned to self.members when the method returns.
get_members(E) ==
    /\ pc = "get_members"
    /\ status = "running"
    /\ \E eps \in [1..Len(orgs) -> E] :
        LET res == [k \in 1..Len(orgs) |-> load_json(eps[k])]
            bad == {k \in 1..Len(orgs) :
                       ~(Returned(res[k]) /\ AllDicts(res[k].json_list))}
            last == IF bad = {} THEN Len(orgs) ELSE Min(bad)
        IN  /\ requests' = requests + RequestsUpTo(res, last)
            /\ members_calls' = members_calls \o SubSeq(orgs, 1, last)
            /\ call' = [pages |-> eps[last], res |-> res[last]]
            /\ IF bad = {}
               THEN /\ members' = [o \in Range(orgs) |->
                                     Logins(res[Max({k \in 1..Len(orgs) : orgs[k] = o})].json_list)]
                    /\ pc' = "dispatch"
                    /\ status' = status
               ELSE /\ members' = members
                    /\ pc' = pc
                    /\ status' = FaultOf(res[last])
    /\ UNCHANGED <<config, orgs_file, user, api_token, orgs, operations, org_i, item_i,
                   json_repo, json_all, graph, csv, gexf, calls, ran, returned>>

---------------------------------------------------------------------------
(* The dispatch loop of select_options (lines 127-128) and the preamble of *)
(* the generator it calls.                                                 *)

OpName(op) ==
    CASE op = 1 -> "get_org_repos"
      [] op = 2 -> "get_repo_contributors"
      [] op = 3 -> "get_members_repos"
      [] op = 4 -> "get_members_info"
      [] op = 5 -> "get_starred_repos"
      [] op = 6 -> "generate_follower_network"
      [] op = 7 -> "generate_memberships_network"

\* The first organization at or after index i that has a member: the loops
\* `for org in self.orgs: for member in self.members[org]` pass the others.
RECURSIVE NextOrgWithMembers(_)
NextOrgWithMembers(i) ==
    IF i > Len(orgs) THEN i
    ELSE IF members[orgs[i]] # <<>> THEN i
    ELSE NextOrgWithMembers(i + 1)

\* Mutant: a member already in the graph keeps the organization it was
\* first added with.
RECURSIVE add_members_keeping_first(_, _, _)
add_members_keeping_first(G, i, j) ==
    IF i > Len(orgs) THEN G
    ELSE IF j > Len(members[orgs[i]]) THEN add_members_keeping_first(G, i + 1, 1)
    ELSE add_members_keeping_first(
             IF members[orgs[i]][j] \in NodeNames(G) THEN G
             ELSE add_node(G, members[orgs[i]][j], orgs[i]),
             i, j + 1)

\* Lines 355-358: every member becomes a node of the graph, organization by
\* organization, from position (i, j) of the nested loop on.
RECURSIVE add_members(_, _, _)
add_members(G, i, j) ==
    IF i > Len(orgs) THEN G
    ELSE IF j > Len(members[orgs[i]]) THEN add_members(G, i + 1, 1)
    ELSE add_members(add_node(G, members[orgs[i]][j], orgs[i]), i, j + 1)

\* The graphs a generator creates before its loop.
NewGraphs(op) ==
    CASE op = 2 -> [contributor |-> DiGraph]
      [] op = 6 -> [full |-> add_members(DiGraph, 1, 1), narrow |-> add_members(DiGraph, 1, 1)]
      [] op = 7 -> [membership |-> DiGraph]
      [] OTHER -> <<>>

dispatch ==
    /\ pc = "dispatch"
    /\ status = "running"
    /\ IF operations = <<>>
       THEN /\ pc' = "end"
            /\ status' = "finished"
            /\ UNCHANGED <<operations, ran, org_i, item_i, json_repo, json_all, graph,
                           calls, returned>>
       ELSE LET op == Head(operations)
            IN  /\ operations' = Tail(operations)
                /\ ran' = Append(ran, op)
                /\ json_repo' = <<>>
                /\ json_all' = <<>>
                /\ calls' = {}
                /\ returned' = {}
                /\ item_i' = 1
                /\ IF op \in MemberScoped /\ \E k \in 1..Len(orgs) : orgs[k] \notin DOMAIN members
                   THEN \* self.members[org] of an organization never fetched
                        /\ pc' = pc
                        /\ status' = "KeyError"
                        /\ UNCHANGED <<org_i, graph>>
                   ELSE /\ pc' = OpName(op)
                        /\ status' = status
                        /\ org_i' = IF op \in MemberScoped THEN NextOrgWithMembers(1) ELSE 1
                        /\ graph' = NewGraphs(op)
    /\ UNCHANGED <<config, orgs_file, user, api_token, orgs, members, csv, gexf,
                   requests, members_calls, call>>

\* What no report generator assigns.
FieldsUnchanged ==
    UNCHANGED <<config, orgs_file, user, api_token, orgs, members, operations,
                members_calls, ran>>

\* An exception nothing catches: the run ends where it is (status is no
\* longer "running", and pc stays at the method that raised).
Crash(fault, ep, res, nreq) ==
    /\ pc' = pc
    /\ status' = fault
    /\ requests' = requests + nreq
    /\ call' = [pages |-> ep, res |-> res]
    /\ UNCHANGED <<org_i, item_i, json_repo, json_all, graph, csv, gexf, calls, returned>>

\* The position after member (org_i, item_i) in the nested member loops.
NextMemberOrg == IF item_i < Len(members[orgs[org_i]]) THEN org_i ELSE NextOrgWithMembers(org_i + 1)

NextMemberItem == IF item_i < Len(members[orgs[org_i]]) THEN item_i + 1 ELSE 1

InMemberLoop(name) ==
    /\ pc = name
    /\ status = "running"
    /\ org_i <= Len(orgs)

LoopDone(name) ==
    /\ pc = name
    /\ status = "running"
    /\ org_i > Len(orgs)

\* generate_csv(file_name, json_list, columns) and nx.write_gexf(graph, file)
\* at the end of a generator, which then returns to the dispatch loop.
Finish(file_name, json_list, graph_files) ==
    /\ pc' = "dispatch"
    /\ csv' = IF file_name = None THEN csv ELSE [file |-> file_name, rows |-> json_list]
    /\ gexf' = {g \in gexf : g.file \notin {f.file : f \in graph_files}} \cup graph_files
    /\ UNCHANGED <<status, org_i, item_i, json_repo, json_all, graph, requests, call,
                   calls, returned>>
    /\ FieldsUnchanged

---------------------------------------------------------------------------
(* get_org_repos (lines 180-206).                                          *)

get_org_repos(E) ==
    /\ InMemberLoop("get_org_repos")
    /\ \E ep \in E :
        LET res == load_json(ep)
            org == orgs[org_i]
        IN  IF ~(Returned(res) /\ AllDicts(res.json_list))
            THEN Crash(FaultOf(res), ep, res, Len(res.reqs))
            ELSE /\ json_all' = json_all \o
                        [k \in 1..Len(res.json_list) |->
                            [res.json_list[k] EXCEPT !.organization = org]]
                 /\ org_i' = org_i + 1
                 /\ requests' = requests + Len(res.reqs)
                 /\ call' = [pages |-> ep, res |-> res]
                 /\ UNCHANGED <<pc, status, item_i, json_repo, graph, csv, gexf, calls,
                                returned>>
    /\ FieldsUnchanged

get_org_repos_write ==
    /\ LoopDone("get_org_repos")
    /\ Finish("org_repositories.csv", json_all, {})

---------------------------------------------------------------------------
(* get_repo_contributors (lines 208-258).                                  *)

\* Lines 235-245, the rows: each contributor with organization and repository.
contributor_rows(json_contributors_repo, org, repo) ==
    [k \in 1..Len(json_contributors_repo) |->
        [json_contributors_repo[k] EXCEPT !.organization = org, !.repository = repo.name]]

\* Lines 235-241, the edges: contributor -> repository, from item k on.
RECURSIVE add_contributors(_, _, _, _, _)
add_contributors(G, json_contributors_repo, k, org, repo) ==
    IF k > Len(json_contributors_repo) THEN G
    ELSE add_contributors(
             add_edge(G, json_contributors_repo[k].name, repo.name, org),
             json_contributors_repo, k + 1, org, repo)

\* Lines 221-225: the repositories of the next organization.
get_repo_contributors(E) ==
    /\ InMemberLoop("get_repo_contributors")
    /\ \E ep \in E :
        LET res == load_json(ep)
        IN  IF ~Returned(res)
            THEN Crash(FaultOf(res), ep, res, Len(res.reqs))
            ELSE /\ requests' = requests + Len(res.reqs)
                 /\ call' = [pages |-> ep, res |-> res]
                 /\ IF res.json_list = <<>>
                    THEN /\ org_i' = org_i + 1
                         /\ UNCHANGED <<pc, json_repo>>
                    ELSE /\ json_repo' = res.json_list
                         /\ pc' = "for repo in json_repo"
                         /\ org_i' = org_i
                 /\ item_i' = 1
                 /\ UNCHANGED <<status, json_all, graph, csv, gexf, calls, returned>>
    /\ FieldsUnchanged

\* Mutant: a repository whose fetch failed keeps the pages decoded before.
contributors_kept_after(res) == res.json_list

\* The contributors the loop of lines 235-245 runs over: none when load_json
\* raised JSONDecodeError (line 246), the assignment of line 232 never made.
contributors_after(res) == IF Returned(res) THEN res.json_list ELSE <<>>

\* Lines 226-250: one repository.
contributors_of_repo(E) ==
    /\ pc = "for repo in json_repo"
    /\ status = "running"
    /\ LET org == orgs[org_i]
           repo == json_repo[item_i]
       IN  IF repo.type # "dict"
           THEN \* repo['name'] of a str: TypeError, which line 246 does not catch
                Crash("TypeError", call.pages, call.res, 0)
           ELSE \E ep \in E :
                LET res == load_json(ep)
                    json_contributors_repo == contributors_after(res)
                    with_node == add_node(graph.contributor, repo.name, org)
                IN  IF res.outcome = "ConnectionError" \/ ~AllDicts(json_contributors_repo)
                    THEN Crash(FaultOf(res), ep, res, Len(res.reqs))
                    ELSE /\ graph' = [contributor |->
                                add_contributors(with_node, json_contributors_repo, 1, org, repo)]
                         /\ json_all' = json_all \o
                                contributor_rows(json_contributors_repo, org, repo)
                         /\ calls' = calls \cup
                                {[i |-> org_i, j |-> item_i, org |-> org,
                                  who |-> repo.name, res |-> res]}
                         /\ requests' = requests + Len(res.reqs)
                         /\ call' = [pages |-> ep, res |-> res]
                         /\ IF item_i < Len(json_repo)
                            THEN /\ item_i' = item_i + 1
                                 /\ UNCHANGED <<pc, org_i, json_repo>>
                            ELSE /\ item_i' = 1
                                 /\ org_i' = org_i + 1
                                 /\ json_repo' = <<>>
                                 /\ pc' = "get_repo_contributors"
                         /\ UNCHANGED <<status, csv, gexf, returned>>
    /\ FieldsUnchanged

get_repo_contributors_write ==
    /\ LoopDone("get_repo_contributors")
    /\ Finish("contributor_list.csv", json_all,
              {[file |-> "contributor_network.gexf", graph |-> graph.contributor]})

---------------------------------------------------------------------------
(* get_members_repos (lines 260-286) and get_starred_repos (lines 317-340):*)
(* the same loop over two endpoints.                                       *)

\* Mutant: a field the raw record already has is kept.
enrich_keeping_raw(repo, org, member) ==
    [repo EXCEPT !.organization = IF @ = None THEN org ELSE @,
                 !.user = IF @ = None THEN member ELSE @]

\* Lines 283-284 and 337-338: repo['organization'] = org; repo['user'] = member.
enrich(repo, org, member) == [repo EXCEPT !.organization = org, !.user = member]

\* One member: the body of `for member in self.members[org]`.
member_rows(E) ==
    \E ep \in E :
        LET res == load_json(ep)
            org == orgs[org_i]
            member == members[org][item_i]
        IN  IF ~(Returned(res) /\ AllDicts(res.json_list))
            THEN Crash(FaultOf(res), ep, res, Len(res.reqs))
            ELSE /\ json_all' = json_all \o
                        [k \in 1..Len(res.json_list) |-> enrich(res.json_list[k], org, member)]
                 /\ calls' = calls \cup
                        {[i |-> org_i, j |-> item_i, org |-> org, who |-> member, res |-> res]}
                 /\ org_i' = NextMemberOrg
                 /\ item_i' = NextMemberItem
                 /\ requests' = requests + Len(res.reqs)
                 /\ call' = [pages |-> ep, res |-> res]
                 /\ UNCHANGED <<pc, status, json_repo, graph, csv, gexf, returned>>

get_members_repos(E) ==
    /\ InMemberLoop("get_members_repos")
    /\ member_rows(E)
    /\ FieldsUnchanged

get_members_repos_write ==
    /\ LoopDone("get_members_repos")
    /\ Finish("members_repositories.csv", json_all, {})

get_starred_repos(E) ==
    /\ InMemberLoop("get_starred_repos")
    /\ member_rows(E)
    /\ FieldsUnchanged

get_starred_repos_write ==
    /\ LoopDone("get_starred_repos")
    /\ Finish("starred_repositories.csv", json_all, {})

---------------------------------------------------------------------------
(* get_members_info (lines 288-315): one unpaginated request per member.   *)

ProfileObject == [kind |-> "object", items |-> <<Str("login"), Str("name")>>]

get_members_info(R) ==
    /\ InMemberLoop("get_members_info")
    /\ \E json_org_member \in R :
        LET org == orgs[org_i]
            member == members[org][item_i]
            fault == CASE json_org_member.kind = "neterror" -> "ConnectionError"
                       [] json_org_member.kind = "notjson" -> "JSONDecodeError"
                       [] json_org_member.kind = "array" -> "TypeError"
                       [] OTHER -> None
        IN  IF fault # None
            THEN Crash(fault, call.pages, call.res, 1)
            ELSE /\ json_all' = Append(json_all,
                        [Dict(IF json_org_member = ProfileObject THEN member ELSE None)
                            EXCEPT !.organization = org])
                 /\ org_i' = NextMemberOrg
                 /\ item_i' = NextMemberItem
                 /\ requests' = requests + 1
                 /\ UNCHANGED <<pc, status, json_repo, graph, csv, gexf, call, calls,
                                returned>>
    /\ FieldsUnchanged

get_members_info_write ==
    /\ LoopDone("get_members_info")
    /\ Finish("members_info.csv", json_all, {})

---------------------------------------------------------------------------
(* generate_follower_network (lines 342-407).                              *)

\* Mutant: the narrow graph takes an edge when the other end is a member of
\* any organization.
narrow_any_org(login, org) == \E o \in DOMAIN members : login \in Range(members[o])

\* Lines 380 and 392: `login in self.members[org]`.
in_members(login, org) == login \in Range(members[org])

\* Lines 373-385: the followers of member, from item k on.
RECURSIVE add_followers(_, _, _, _, _)
add_followers(Gs, json_followers, k, member, org) ==
    IF k > Len(json_followers) THEN Gs
    ELSE LET follower == json_followers[k].name
         IN  add_followers(
                 [full |-> add_edge(Gs.full, follower, member, org),
                  narrow |-> IF in_members(follower, org)
                             THEN add_edge(Gs.narrow, follower, member, org)
                             ELSE Gs.narrow],
                 json_followers, k + 1, member, org)

\* Lines 386-397: the users member follows, from item k on.
RECURSIVE add_followings(_, _, _, _, _)
add_followings(Gs, json_followings, k, member, org) ==
    IF k > Len(json_followings) THEN Gs
    ELSE LET following == json_followings[k].name
         IN  add_followings(
                 [full |-> add_edge(Gs.full, member, following, org),
                  narrow |-> IF in_members(following, org)
                             THEN add_edge(Gs.narrow, member, following, org)
                             ELSE Gs.narrow],
                 json_followings, k + 1, member, org)

\* Lines 361-397: one member.
generate_follower_network(E) ==
    /\ InMemberLoop("generate_follower_network")
    /\ \E ep1 \in E :
        LET json_followers == load_json(ep1)
            org == orgs[org_i]
            member == members[org][item_i]
        IN  IF ~Returned(json_followers)
            THEN Crash(FaultOf(json_followers), ep1, json_followers, Len(json_followers.reqs))
            ELSE \E ep2 \in E :
                LET json_followings == load_json(ep2)
                    nreq == Len(json_followers.reqs) + Len(json_followings.reqs)
                IN  IF ~(/\ Returned(json_followings)
                         /\ AllDicts(json_followers.json_list)
                         /\ AllDicts(json_followings.json_list))
                    THEN Crash(FaultOf(json_followings), ep2, json_followings, nreq)
                    ELSE /\ graph' = add_followings(
                                add_followers(graph, json_followers.json_list, 1, member, org),
                                json_followings.json_list, 1, member, org)
                         /\ returned' = returned
                                \cup {[i |-> org_i, from |-> f.name, to |-> member] :
                                         f \in Range(json_followers.json_list)}
                                \cup {[i |-> org_i, from |-> member, to |-> f.name] :
                                         f \in Range(json_followings.json_list)}
                         /\ org_i' = NextMemberOrg
                         /\ item_i' = NextMemberItem
                         /\ requests' = requests + nreq
                         /\ call' = [pages |-> ep2, res |-> json_followings]
                         /\ UNCHANGED <<pc, status, json_repo, json_all, csv, gexf, calls>>
    /\ FieldsUnchanged

generate_follower_network_write ==
    /\ LoopDone("generate_follower_network")
    /\ Finish(None, <<>>,
              {[file |-> "full-follower-network.gexf", graph |-> graph.full],
               [file |-> "narrow-follower-network.gexf", graph |-> graph.narrow]})

---------------------------------------------------------------------------
(* generate_memberships_network (lines 409-434).                           *)

RECURSIVE add_memberships(_, _, _, _)
add_memberships(G, json_org_memberships, k, member) ==
    IF k > Len(json_org_memberships) THEN G
    ELSE add_memberships(
             add_edge(G, member, json_org_memberships[k].name, "organization"),
             json_org_memberships, k + 1, member)

generate_memberships_network(E) ==
    /\ InMemberLoop("generate_memberships_network")
    /\ \E ep \in E :
        LET res == load_json(ep)
            member == members[orgs[org_i]][item_i]
        IN  IF ~(Returned(res) /\ AllDicts(res.json_list))
            THEN Crash(FaultOf(res), ep, res, Len(res.reqs))
            ELSE /\ graph' = [membership |->
                        add_memberships(add_node(graph.membership, member, "user"),
                                        res.json_list, 1, member)]
                 /\ org_i' = NextMemberOrg
                 /\ item_i' = NextMemberItem
                 /\ requests' = requests + Len(res.reqs)
                 /\ call' = [pages |-> ep, res |-> res]
                 /\ UNCHANGED <<pc, status, json_repo, json_all, csv, gexf, calls, returned>>
    /\ FieldsUnchanged

generate_memberships_network_write ==
    /\ LoopDone("generate_memberships_network")
    /\ Finish(None, <<>>, {[file |-> "membership_network.gexf", graph |-> graph.membership]})

---------------------------------------------------------------------------
(* The whole run, every report, against a small API.                       *)

Configs ==
    {NoConfigFile} \cup
    {ConfigFile(u, t) : u \in {Absent, "", "octocat"}, t \in {Absent, "", "token"}}

OrgFiles == {<<>>, <<"acme">>, <<"acme", "beta">>, <<"acme", "acme">>}

\* Sequences over S of length 1..n.
SeqsUpTo(S, n) == UNION {[1..m -> S] : m \in 1..n}

All == <<1, 2, 3, 4, 5, 6, 7>>

Selections == SeqsUpTo(1..7, MaxOps) \cup {All}

\* An endpoint with nothing, one with one record, one whose body is not JSON.
SmallApi == {<<>>, <<Array(<<Dict("alice")>>)>>, <<NotJson>>}

SmallProfiles == {ProfileObject, NotJson}

Init == InitWith(Configs, OrgFiles)

Next ==
    \/ construct
    \/ select_options(Selections)
    \/ get_members(SmallApi)
    \/ dispatch
    \/ get_org_repos(SmallApi)
    \/ get_org_repos_write
    \/ get_repo_contributors(SmallApi)
    \/ contributors_of_repo(SmallApi)
    \/ get_repo_contributors_write
    \/ get_members_repos(SmallApi)
    \/ get_members_repos_write
    \/ get_members_info(SmallProfiles)
    \/ get_members_info_write
    \/ get_starred_repos(SmallApi)
    \/ get_starred_repos_write
    \/ generate_follower_network(SmallApi)
    \/ generate_follower_network_write
    \/ generate_memberships_network(SmallApi)
    \/ generate_memberships_network_write

Spec == Init /\ [][Next]_vars

---------------------------------------------------------------------------
(* Report 1 alone, one organization, against every small endpoint: the     *)
(* pagination of load_json.                                                *)

Credentials == {ConfigFile("octocat", "token")}

\* Items numbered from lo to hi, as one page.
Page(lo, hi) == [k \in 1..(hi - lo + 1) |-> Dict(lo + k - 1)]

\* Pages of sizes 100, 100, 37, 0.
Paginated237 ==
    <<Array(Page(1, 100)), Array(Page(101, 200)), Array(Page(201, 237)), EmptyArray>>

\* Here the records are numbered from 1, and the two keys of an error body,
\* "message" and "documentation_url", are numbered -1 and -2.
NumberedErrorObject == ObjectOf(0 - 1, 0 - 2)

PageResponses ==
    {Array(items) : items \in {<<>>} \cup SeqsUpTo({Dict(1), Dict(2)}, MaxPageLen)}
        \cup {NumberedErrorObject, NotJson, NetError}

LoadApi == {<<>>} \cup SeqsUpTo(PageResponses, MaxPages) \cup {Paginated237}

InitLoad == InitWith(Credentials, {<<"acme">>})

NextLoad ==
    \/ construct
    \/ select_options({<<1>>})
    \/ dispatch
    \/ get_org_repos(LoadApi)
    \/ get_org_repos_write

SpecLoad == InitLoad /\ [][NextLoad]_vars

RECURSIVE ConcatPages(_, _)
ConcatPages(pages, n) ==
    IF n = 0 THEN <<>> ELSE ConcatPages(pages, n - 1) \o pages[n].items

\* Pages 1..k-1 of the endpoint are non-empty arrays and page k is empty.
FirstEmptyAt(pages, k) ==
    /\ \A n \in 1..(k - 1) :
          n <= Len(pages) /\ pages[n].kind = "array" /\ pages[n].items # <<>>
    /\ Response(pages, k) = EmptyArray

Called == call.res.outcome # "none"

\* C1: when pages 1..k-1 are non-empty arrays and page k is the first empty
\* one, load_json issues exactly the requests for pages 1, 2, ..., k in that
\* order and returns the concatenation of pages 1..k-1 in order; for page
\* sizes [100, 100, 37, 0] that is 237 records after 4 requests, and for an
\* empty first page the empty list after 1 request.
C1_PaginationExact ==
    Called =>
        /\ \A k \in 1..(Len(call.pages) + 1) :
              FirstEmptyAt(call.pages, k) =>
                  /\ call.res.outcome = "return"
                  /\ call.res.reqs = [n \in 1..k |-> n]
                  /\ call.res.json_list = ConcatPages(call.pages, k - 1)
                  /\ requests = k
        /\ call.pages = Paginated237 =>
              /\ call.res.json_list = Page(1, 237)
              /\ requests = 4
        /\ call.pages = <<>> => call.res.json_list = <<>> /\ requests = 1

C1_Witness ==
    /\ call.pages = Paginated237
    /\ call.res.outcome = "return"
    /\ Len(call.res.json_list) = 237
    /\ Len(json_all) = 237

\* C2 (as claimed): a page that is neither an array nor the end of the
\* pagination (a JSON object, a body that is not JSON, a network error) is
\* the last page load_json requests, and load_json does not return.
C2_FailurePropagates ==
    Called =>
        \A n \in 1..Len(call.res.reqs) :
            Response(call.pages, call.res.reqs[n]).kind # "array" =>
                /\ n = Len(call.res.reqs)
                /\ call.res.outcome # "return"

---------------------------------------------------------------------------
(* Claims about the whole run.                                             *)

\* The operations typed at the menu.
Selection == ran \o operations

CredentialsMissing ==
    \/ ~config.exists
    \/ config.user_name \in {Absent, ""}
    \/ config.api_token \in {Absent, ""}

\* C8: with missing or empty credentials, or an empty organization list, the
\* constructor exits with status 1 and nothing else ever happens: no
\* request, no members fetch, no generator.
C8_ConfigErrorExitsFirst ==
    (CredentialsMissing \/ orgs_file = <<>>) =>
        /\ requests = 0
        /\ members_calls = <<>>
        /\ members = <<>>
        /\ ran = <<>>
        /\ csv.file = None
        /\ gexf = {}
        /\ pc \in {"__init__", "exit"}
        /\ pc = "exit" => status = "exit(1)"

C8_Witness ==
    /\ pc = "exit"
    /\ status = "exit(1)"
    /\ config = ConfigFile("octocat", "")
    /\ orgs_file # <<>>

\* C5 (state part): once a generator has been dispatched, the members
\* endpoint has been fetched once per configured organization if a report
\* among 3..7 was selected and never otherwise, and the member-scoped row
\* generators read their members from that mapping.
C5_FetchedBeforeFirstGenerator ==
    ran # <<>> =>
        /\ members_calls =
              IF \E k \in 1..Len(Selection) : Selection[k] \in 3..7 THEN orgs ELSE <<>>
        /\ members_calls = <<>> => members = <<>>
        /\ members_calls # <<>> => DOMAIN members = Range(orgs)
        /\ pc \in {"get_members_repos", "get_starred_repos"} =>
              \A c \in calls : c.org = orgs[c.i] /\ c.who = members[c.org][c.j]

\* C5 (step part): no step taken after the first dispatch fetches the
\* members again or changes the mapping.
C5_GeneratorsKeepMembers ==
    ran # <<>> => members' = members /\ members_calls' = members_calls

\* C5: the members mapping is fetched exactly once, before the first
\* generator, if and only if a member-scoped report is selected, and is
\* shared unchanged by every generator of the run.
C5_MembersFetchedOnce ==
    [](C5_FetchedBeforeFirstGenerator) /\ [][C5_GeneratorsKeepMembers]_vars

C5_Witness ==
    /\ ran = <<3, 5>>
    /\ pc = "get_starred_repos"
    /\ orgs = <<"acme", "beta">>
    /\ members_calls = orgs
    /\ calls # {}

---------------------------------------------------------------------------
(* Report 2 alone: the contributors of the repositories of one or two      *)
(* organizations.                                                          *)

\* What /orgs/{org}/repos may answer.
RepoApi ==
    {<<>>,
     <<Array(<<Dict("docs")>>)>>,
     <<Array(<<Dict("docs"), Dict("app")>>)>>,
     <<Array(<<Dict("app")>>), Array(<<Dict("docs")>>)>>}

\* What /repos/{org}/{repo}/contributors may answer: nobody, one or two
\* contributors on one or two pages, a body that is not JSON (an empty
\* repository) on the first or on a later page, a network error.
ContributorApi ==
    {<<>>,
     <<Array(<<Dict("alice")>>)>>,
     <<Array(<<Dict("bob")>>), Array(<<Dict("alice")>>)>>,
     <<NotJson>>,
     <<Array(<<Dict("alice")>>), NotJson>>,
     <<NetError>>}

InitContributors == InitWith(Credentials, {<<"acme">>, <<"acme", "beta">>})

NextContributors ==
    \/ construct
    \/ select_options({<<2>>})
    \/ dispatch
    \/ get_repo_contributors(RepoApi)
    \/ contributors_of_repo(ContributorApi)
    \/ get_repo_contributors_write

SpecContributors == InitContributors /\ [][NextContributors]_vars

\* The recorded calls in the order of the loops that made them.
RECURSIVE InLoopOrder(_)
InLoopOrder(S) ==
    IF S = {} THEN <<>>
    ELSE LET first == CHOOSE c \in S :
                 \A d \in S : c.i < d.i \/ (c.i = d.i /\ c.j <= d.j)
         IN  <<first>> \o InLoopOrder(S \ {first})

\* A recorded fetch that met a body that is not JSON, as the same fetch of a
\* repository without contributors.
AsEmptyRepository(c) ==
    IF c.res.outcome = "JSONDecodeError"
    THEN [c EXCEPT !.res = [outcome |-> "return", json_list |-> <<>>, reqs |-> <<1>>]]
    ELSE c

\* The rows of a sequence of returned contributor fetches.
RECURSIVE RowsOfFetches(_)
RowsOfFetches(fetches) ==
    IF fetches = <<>> THEN <<>>
    ELSE LET c == Head(fetches)
         IN  [k \in 1..Len(c.res.json_list) |->
                 [c.res.json_list[k] EXCEPT !.organization = c.org, !.repository = c.who]]
             \o RowsOfFetches(Tail(fetches))

\* The edges of a sequence of returned contributor fetches: for every pair
\* the organization of the last fetch that held it.
EdgesOfFetches(fetches) ==
    UNION {{[from |-> fetches[n].res.json_list[k].name, to |-> fetches[n].who,
             attr |-> fetches[n].org] :
               k \in {k \in 1..Len(fetches[n].res.json_list) :
                   ~\E m \in (n + 1)..Len(fetches) :
                       /\ fetches[m].who = fetches[n].who
                       /\ \E l \in 1..Len(fetches[m].res.json_list) :
                             fetches[m].res.json_list[l].name
                                 = fetches[n].res.json_list[k].name}} :
           n \in 1..Len(fetches)}

\* C6: a repository whose contributors fetch meets a body that is not JSON,
\* on any page, is skipped and the generator goes on: the rows and the edges
\* are those of the same run with that repository returning no contributor,
\* so the repository gives no row and no edge, and the run is not ended.
C6_EmptyRepositorySkipped ==
    (ran = <<2>> /\ status = "running") =>
        LET fetches == InLoopOrder({AsEmptyRepository(c) : c \in calls})
        IN  /\ json_all = RowsOfFetches(fetches)
            /\ graph.contributor.edges = EdgesOfFetches(fetches)
            /\ \A c \in calls : c.res.outcome = "JSONDecodeError" =>
                  /\ ~\E row \in Range(json_all) :
                        row.organization = c.org /\ row.repository = c.who
                        /\ ~\E d \in calls : d.org = c.org /\ d.who = c.who /\ Returned(d.res)
                  /\ c.who \in NodeNames(graph.contributor)
            /\ pc = "dispatch" => csv.rows = json_all

\* A run that skipped the first repository, on its second page, and went on
\* to a second organization before it wrote its files.
C6_Witness ==
    /\ pc = "dispatch"
    /\ csv.file = "contributor_list.csv"
    /\ Len(orgs) = 2
    /\ \E c \in calls :
          /\ c.i = 1 /\ c.j = 1
          /\ c.res.outcome = "JSONDecodeError"
          /\ c.res.json_list # <<>>
    /\ \E c \in calls : c.i = 2 /\ Returned(c.res) /\ c.res.json_list # <<>>
    /\ csv.rows # <<>>

\* C9 (as claimed): every repository is a node of its own, so the graph has
\* as many repository nodes (the nodes with an organization) as
\* repositories were processed, each named by organization and name.
C9_RepositoryNodesDistinct ==
    (ran = <<2>> /\ status = "running") =>
        Cardinality({n \in graph.contributor.nodes : n.attr # None})
            = Cardinality({<<c.org, c.who>> : c \in calls})

---------------------------------------------------------------------------
(* Reports 3 and 5 alone: the repositories, or the starred repositories,   *)
(* of the members of one or two organizations.                             *)

\* What /orgs/{org}/members may answer.
MemberApi ==
    {<<>>,
     <<Array(<<Dict("bob")>>)>>,
     <<Array(<<Dict("alice"), Dict("bob")>>)>>}

\* A record of the API that already has an organization and a user field.
Tagged(name) == [Dict(name) EXCEPT !.organization = "raw", !.user = "raw"]

\* What /users/{member}/starred and /users/{member}/repos may answer.
RepoListApi ==
    {<<>>,
     <<Array(<<Dict("R1")>>)>>,
     <<Array(<<Dict("R1"), Dict("R2")>>)>>,
     <<Array(<<Dict("R2")>>), Array(<<Tagged("R1")>>)>>,
     <<NotJson>>}

InitMemberRows == InitWith(Credentials, {<<"acme">>, <<"acme", "beta">>})

NextMemberRows ==
    \/ construct
    \/ select_options({<<3>>, <<5>>})
    \/ get_members(MemberApi)
    \/ dispatch
    \/ get_members_repos(RepoListApi)
    \/ get_members_repos_write
    \/ get_starred_repos(RepoListApi)
    \/ get_starred_repos_write

SpecMemberRows == InitMemberRows /\ [][NextMemberRows]_vars

\* The recorded call of load_json for member j of organization i.
FetchAt(i, j) == CHOOSE c \in calls : c.i = i /\ c.j = j

\* The rows of member j of organization i and of every member after it:
\* organization by organization in configured order, member by member in
\* member-list order, record by record in returned order.
RECURSIVE RowsFrom(_, _)
RowsFrom(i, j) ==
    IF i > Len(orgs) THEN <<>>
    ELSE IF j > Len(members[orgs[i]]) THEN RowsFrom(i + 1, 1)
    ELSE LET json_list == FetchAt(i, j).res.json_list
         IN  [k \in 1..Len(json_list) |->
                 [type |-> "dict", name |-> json_list[k].name,
                  organization |-> orgs[i], user |-> members[orgs[i]][j],
                  repository |-> json_list[k].repository]]
             \o RowsFrom(i, j + 1)

MemberRowsWritten ==
    /\ Len(ran) = 1
    /\ ran[1] \in {3, 5}
    /\ pc \in {"dispatch", "end"}

\* C7: the rows a member-scoped generator hands to the writer are, for
\* every organization in configured order and every member of it in list
\* order (a member of two organizations once for each), the records
\* load_json returned for that member in returned order, each with
\* organization and user set to that organization and that member.
C7_RowsInLoopOrder ==
    MemberRowsWritten =>
        /\ {<<c.i, c.j>> : c \in calls}
              = UNION {{<<i, j>> : j \in 1..Len(members[orgs[i]])} : i \in 1..Len(orgs)}
        /\ csv.rows = RowsFrom(1, 1)
        /\ csv.file = IF ran[1] = 3 THEN "members_repositories.csv"
                                    ELSE "starred_repositories.csv"

Row(org, member, repo) == [Dict(repo) EXCEPT !.organization = org, !.user = member]

\* The scenario: alice stars R1, bob stars R1 and R2.
C7_Witness ==
    /\ MemberRowsWritten
    /\ ran = <<5>>
    /\ orgs = <<"acme">>
    /\ members["acme"] = <<"alice", "bob">>
    /\ csv.rows = <<Row("acme", "alice", "R1"), Row("acme", "bob", "R1"),
                    Row("acme", "bob", "R2")>>

---------------------------------------------------------------------------
(* Report 6 alone: the follower networks of two organizations that share   *)
(* a member.                                                               *)

\* /orgs/{org}/members: alice and bob, or bob and carol, or carol alone.
FollowerMemberApi ==
    {<<Array(<<Dict("alice"), Dict("bob")>>)>>,
     <<Array(<<Dict("bob"), Dict("carol")>>)>>,
     <<Array(<<Dict("carol")>>)>>}

\* /users/{member}/followers and /users/{member}/following: nobody, a
\* member, somebody who is no member, or a body that is not JSON.
FollowApi ==
    {<<>>,
     <<Array(<<Dict("alice")>>)>>,
     <<Array(<<Dict("carol")>>)>>,
     <<Array(<<Dict("dave")>>)>>,
     <<NotJson>>}

InitFollowers == InitWith(Credentials, {<<"acme", "beta">>})

NextFollowers ==
    \/ construct
    \/ select_options({<<6>>})
    \/ get_members(FollowerMemberApi)
    \/ dispatch
    \/ generate_follower_network(FollowApi)
    \/ generate_follower_network_write

SpecFollowers == InitFollowers /\ [][NextFollowers]_vars

\* The follower generator is running, or has written its graphs.
InFollowerNetwork == ran = <<6>> /\ status \in {"running", "finished"}

Logged == UNION {{r.from, r.to} : r \in returned}

AllMembers == UNION {Range(members[o]) : o \in DOMAIN members}

\* Organization index i has both u and v as members.
BothMembers(i, u, v) == {u, v} \subseteq Range(members[orgs[i]])

C4_EdgeInsertionIdempotent ==
    InFollowerNetwork =>
        /\ \A tag \in {"full", "narrow"} :
              /\ \A e, f \in graph[tag].edges : (e.from = f.from /\ e.to = f.to) => e = f
              /\ \A n, m \in graph[tag].nodes : n.name = m.name => n = m
              /\ \A e \in graph[tag].edges :
                    {e.from, e.to} \subseteq NodeNames(graph[tag])
        /\ Cardinality(graph.full.edges) = Cardinality({<<r.from, r.to>> : r \in returned})
        /\ Cardinality(graph.full.nodes) = Cardinality(Logged \cup AllMembers)
        /\ \A e \in graph.full.edges :
              e.attr = orgs[Max({r.i : r \in {r \in returned : r.from = e.from /\ r.to = e.to}})]
        /\ \A e \in graph.narrow.edges :
              e.attr = orgs[Max({r.i : r \in {r \in returned :
                                    r.from = e.from /\ r.to = e.to
                                    /\ BothMembers(r.i, e.from, e.to)}})]

\* The pair (alice, carol) was inserted twice, from alice's following list
\* while iterating acme and from carol's followers list while iterating
\* beta: one edge, of beta, and the three members are the only nodes.
C4_Witness ==
    /\ InFollowerNetwork
    /\ pc = "dispatch"
    /\ members["acme"] = <<"alice", "bob">>
    /\ members["beta"] = <<"bob", "carol">>
    /\ {r.i : r \in {r \in returned : r.from = "alice" /\ r.to = "carol"}} = {1, 2}
    /\ graph.full.edges = {[from |-> "alice", to |-> "carol", attr |-> "beta"]}
    /\ Cardinality(graph.full.nodes) = 3

\* C10: in both follower graphs every member is exactly one node, edges or
\* not, and its organization is the last organization in configured order
\* that lists it, whatever edges were inserted since.
C10_MemberNodes ==
    InFollowerNetwork =>
        \A tag \in {"full", "narrow"} : \A m \in AllMembers :
            /\ Cardinality({n \in graph[tag].nodes : n.name = m}) = 1
            /\ [name |-> m,
                attr |-> orgs[Max({i \in 1..Len(orgs) : m \in Range(members[orgs[i]])})]]
                    \in graph[tag].nodes

\* bob, a member of both, is a node of beta also after an edge of acme
\* reached him; carol has no edge at all.
C10_Witness ==
    /\ InFollowerNetwork
    /\ pc = "dispatch"
    /\ members["acme"] = <<"alice", "bob">>
    /\ members["beta"] = <<"bob", "carol">>
    /\ [from |-> "alice", to |-> "bob", attr |-> "acme"] \in graph.narrow.edges
    /\ [name |-> "bob", attr |-> "beta"] \in graph.narrow.nodes
    /\ ~\E e \in graph.full.edges : "carol" \in {e.from, e.to}
    /\ [name |-> "carol", attr |-> "beta"] \in graph.full.nodes

=============================================================================
